---- MODULE Spec2Model ----
(***************************************************************************)
(* State-machine model of cerebrum/manager/tool.py (class ToolManager):    *)
(* the version codec, the on-disk tool cache, download_tool, load_tool     *)
(* (local and remote branch) and the dependency installer.                 *)
(*                                                                         *)
(* Python strings that the code takes apart (versions, path stems) are     *)
(* sequences of one-character strings: "1.10" is <<"1",".","1","0">>.      *)
(* Opaque strings (authors, tool names, sys.path entries) are TLA+ strings.*)
(*                                                                         *)
(* The methods take no lock.  A call of load_tool, download_tool or        *)
(* install_tool_reqs is a sequence of steps, one for each access to        *)
(* sys.path, sys.modules or the cache directory and for each wait on the   *)
(* registry, pip or the installer, and the steps of two callers            *)
(* interleave.  Whether the callers keep the calls apart themselves is     *)
(* the variable serialized, fixed at the start of a behaviour.             *)
(***************************************************************************)
EXTENDS Integers, Sequences, FiniteSets, TLC

VARIABLES
    codecIn,     \* VersionCodec harness: the version handed to _version_to_path
    codecSeg,    \* the path segment it returned
    codecOut,    \* the version _path_to_version returned for that segment
    codecPc,     \* "in" -> "encoded" -> "decoded"
    nvIn,        \* newest-version harness: the list handed to _get_newest_version
    nvOut,       \* its outcome
    nvPc,        \* "in" -> "done"
    sysPath,     \* sys.path, the process-wide module-search scope
    sysModules,  \* sys.modules, the process-wide module registry
    loadPc,      \* per caller: where it stands inside load_tool(local=True)
    loadFrame,   \* per caller: the locals of its load_tool call
    lastLoad,    \* record of the load_tool(local=True) call that ended last
    nLoads,      \* number of load_tool(local=True) calls started
    pathAtStart, \* sys.path as it was before the first load_tool call
    serialized,  \* the callers run the manager's operations one at a time
    cache,       \* the *.tool files under cache_dir, by (author, name, stem)
    foreign,     \* other directory entries under cache_dir/<author>/<name>
    rootFiles,   \* the plain files directly under cache_dir
    lastCall,    \* record of the cache operation that ended last
    downloads,   \* (author, name, version) triples download_tool has returned
    orphaned,    \* a download_tool call raised after it had written the cache
    nCalls,      \* number of cache operations called
    callPc,      \* per caller: where it stands inside its cache operation
    callFrame,   \* per caller: the locals of its cache operation
    pkFolder,    \* package_tool harness: the files of the folder handed in
    pkConfig,    \* what the folder's config.json holds
    pkOut,       \* what package_tool handed back
    pkPc         \* "in" -> "done"

codecVars == <<codecIn, codecSeg, codecOut, codecPc>>
nvVars == <<nvIn, nvOut, nvPc>>
loadVars ==
    <<sysPath, sysModules, loadPc, loadFrame, lastLoad, nLoads, pathAtStart,
      serialized>>
cacheVars ==
    <<cache, foreign, rootFiles, lastCall, downloads, orphaned, nCalls, callPc,
      callFrame>>
pkVars == <<pkFolder, pkConfig, pkOut, pkPc>>
vars == <<codecVars, nvVars, loadVars, cacheVars, pkVars>>

----------------------------------------------------------------------------
(* Bounds *)

MaxVerLen == 3      \* longest version string of the codec harness
MaxVersions == 3    \* longest version list of the newest-version harness
MaxPathLen == 2     \* longest initial sys.path
MaxLoads == 2       \* load_tool(local=True) calls per behaviour
MaxCalls == 2       \* cache operations per behaviour

----------------------------------------------------------------------------
(* Python values *)

\* Python's None where a version string is expected
None == <<"<None>">>

\* a value not yet computed
Unset == <<"<unset>">>

Digits == <<"0", "1", "2", "3", "4", "5", "6", "7", "8", "9">>
DigitSet == {Digits[i] : i \in 1..10}
DigitVal(c) == (CHOOSE i \in 1..10 : Digits[i] = c) - 1

\* outcome of a call: a returned value or a raised exception
Ok(v) == [ok |-> TRUE, val |-> v, err |-> "none"]
Raise(e) == [ok |-> FALSE, val |-> None, err |-> e]

\* all sequences over S of length at most n
SeqsUpTo(S, n) == UNION {[1..k -> S] : k \in 0..n}

----------------------------------------------------------------------------
(* VersionCodec: _version_to_path / _path_to_version *)

latest == <<"l", "a", "t", "e", "s", "t">>

\* str.replace(old, new) for one-character old and new
Replace(s, old, new) == [i \in 1..Len(s) |-> IF s[i] = old THEN new ELSE s[i]]

_version_to_path(version) ==
    IF version = None THEN latest ELSE Replace(version, ".", "-")

\* mutant: the segment is handed back undecoded
Mut_path_to_version(path_version) == path_version

_path_to_version(path_version) == Replace(path_version, "-", ".")

----------------------------------------------------------------------------
(* _get_newest_version *)

\* str.split(".")
RECURSIVE Split(_)
Split(s) ==
    IF \A i \in 1..Len(s) : s[i] /= "."
    THEN <<s>>
    ELSE LET i == CHOOSE k \in 1..Len(s) :
                     s[k] = "." /\ \A j \in 1..(k - 1) : s[j] /= "."
         IN <<SubSeq(s, 1, i - 1)>> \o Split(SubSeq(s, i + 1, Len(s)))

IsDigits(s) == Len(s) > 0 /\ \A i \in 1..Len(s) : s[i] \in DigitSet

\* int(x) succeeds: decimal digits with an optional leading minus sign
\* (the characters "+", "_" and white space are not in the model's alphabet)
CanInt(x) ==
    \/ IsDigits(x)
    \/ Len(x) > 1 /\ x[1] = "-" /\ IsDigits(Tail(x))

RECURSIVE DigitsVal(_)
DigitsVal(s) ==
    IF Len(s) = 0 THEN 0
    ELSE 10 * DigitsVal(SubSeq(s, 1, Len(s) - 1)) + DigitVal(s[Len(s)])

\* int(x), where CanInt(x)
IntOf(x) == IF x[1] = "-" THEN 0 - DigitsVal(Tail(x)) ELSE DigitsVal(x)

\* the sort key  [int(x) for x in v.split(".")]
VersionKey(v) == LET parts == Split(v) IN [i \in 1..Len(parts) |-> IntOf(parts[i])]
KeyRaises(v) == LET parts == Split(v) IN \E i \in 1..Len(parts) : ~CanInt(parts[i])

\* Python's  a < b  on lists of integers
RECURSIVE ListLess(_, _)
ListLess(a, b) ==
    IF Len(a) = 0 THEN Len(b) > 0
    ELSE IF Len(b) = 0 THEN FALSE
    ELSE IF a[1] /= b[1] THEN a[1] < b[1]
    ELSE ListLess(Tail(a), Tail(b))

\* mutant: the versions are compared as strings, character by character
CharOrd(c) ==
    IF c = "-" THEN 0 ELSE IF c = "." THEN 1
    ELSE IF c \in DigitSet THEN 2 + DigitVal(c) ELSE 99

RECURSIVE StrLess(_, _)
StrLess(a, b) ==
    IF Len(a) = 0 THEN Len(b) > 0
    ELSE IF Len(b) = 0 THEN FALSE
    ELSE IF a[1] /= b[1] THEN CharOrd(a[1]) < CharOrd(b[1])
    ELSE StrLess(Tail(a), Tail(b))

MutKeyLess(v, w) == StrLess(v, w)

\* the order sorted() puts two versions in
KeyLess(v, w) == ListLess(VersionKey(v), VersionKey(w))

\* sorted(versions, key=...): a stable sort, here by insertion
InsertByKey(sorted, v) ==
    LET n == Len(sorted)
        later == {i \in 1..n : KeyLess(v, sorted[i])}
        pos == IF later = {} THEN n + 1
               ELSE CHOOSE i \in later : \A j \in later : i <= j
    IN SubSeq(sorted, 1, pos - 1) \o <<v>> \o SubSeq(sorted, pos, n)

RECURSIVE SortedByKey(_)
SortedByKey(versions) ==
    IF Len(versions) = 0 THEN <<>>
    ELSE InsertByKey(SortedByKey(SubSeq(versions, 1, Len(versions) - 1)),
                     versions[Len(versions)])

\* mutant: a list of one version is answered without computing its sort key
Mut_get_newest_version(versions) ==
    IF Len(versions) = 0 THEN Ok(None)
    ELSE IF Len(versions) > 1 /\ \E i \in 1..Len(versions) : KeyRaises(versions[i])
         THEN Raise("ValueError")
    ELSE LET s == SortedByKey(versions) IN Ok(s[Len(s)])

\* lines 217-222
_get_newest_version(versions) ==
    IF Len(versions) = 0 THEN Ok(None)
    ELSE IF \E i \in 1..Len(versions) : KeyRaises(versions[i]) THEN Raise("ValueError")
    ELSE LET s == SortedByKey(versions) IN Ok(s[Len(s)])

----------------------------------------------------------------------------
(* Inputs of the two harnesses *)

CodecAlphabet == {"1", "0", ".", "-", "b"}
CodecInputs == SeqsUpTo(CodecAlphabet, MaxVerLen) \cup {None}

VersionPool ==
    { <<"1", ".", "2", ".", "0">>, <<"1", ".", "1", "0", ".", "0">>,
      <<"1", ".", "9", ".", "0">>, <<"2", ".", "1", ".", "0">>,
      <<"1", ".", "0">>, <<"1", ".", "0", "0">>, <<"1", "0">>, <<"9">>,
      <<"1", ".", "9">>,
      <<"1", ".", "b">>, latest, <<"1", ".", ".", "0">>,
      <<"1", ".", "0", "-", "b">> }

loadOff ==
    /\ sysPath = <<>> /\ sysModules = <<>> /\ loadPc = <<>> /\ loadFrame = <<>>
    /\ lastLoad = <<>> /\ nLoads = 0 /\ pathAtStart = <<>>

cacheOff ==
    /\ cache = <<>> /\ foreign = {} /\ rootFiles = {} /\ lastCall = <<>>
    /\ downloads = {} /\ orphaned = FALSE /\ nCalls = 0
    /\ callPc = <<>> /\ callFrame = <<>>

pkOff == pkFolder = {} /\ pkConfig = <<>> /\ pkOut = <<>> /\ pkPc = "off"

codecIdle ==
    /\ codecIn = None /\ codecSeg = Unset /\ codecOut = Unset /\ codecPc = "off"
nvIdle ==
    /\ nvIn = <<>> /\ nvOut = Raise("unset") /\ nvPc = "off"

----------------------------------------------------------------------------
(* VersionCodec harness *)

InitCodec ==
    /\ codecIn \in CodecInputs
    /\ codecSeg = Unset /\ codecOut = Unset /\ codecPc = "in"
    /\ nvIdle /\ loadOff /\ cacheOff /\ pkOff
    /\ serialized = TRUE

Encode ==
    /\ codecPc = "in"
    /\ codecSeg' = _version_to_path(codecIn)
    /\ codecPc' = "encoded"
    /\ UNCHANGED <<codecIn, codecOut, nvVars, loadVars, cacheVars, pkVars>>

Decode ==
    /\ codecPc = "encoded"
    /\ codecOut' = _path_to_version(codecSeg)
    /\ codecPc' = "decoded"
    /\ UNCHANGED <<codecIn, codecSeg, nvVars, loadVars, cacheVars, pkVars>>

NextCodec == Encode \/ Decode
SpecCodec == InitCodec /\ [][NextCodec]_vars

----------------------------------------------------------------------------
(* newest-version harness *)

InitNewest ==
    /\ nvIn \in SeqsUpTo(VersionPool, MaxVersions)
    /\ nvOut = Raise("unset") /\ nvPc = "in"
    /\ codecIdle /\ loadOff /\ cacheOff /\ pkOff
    /\ serialized = TRUE

GetNewest ==
    /\ nvPc = "in"
    /\ nvOut' = _get_newest_version(nvIn)
    /\ nvPc' = "done"
    /\ UNCHANGED <<nvIn, codecVars, loadVars, cacheVars, pkVars>>

NextNewest == GetNewest
SpecNewest == InitNewest /\ [][NextNewest]_vars

----------------------------------------------------------------------------
(* Properties of the version codec and of the newest-version selection *)

HasChar(s, c) == \E i \in 1..Len(s) : s[i] = c

\* a dot-separated sequence of non-empty runs of decimal digits
IsIntDotted(v) ==
    /\ v /= None
    /\ Len(v) > 0
    /\ \A i \in 1..Len(v) : v[i] \in DigitSet \cup {"."}
    /\ v[1] /= "." /\ v[Len(v)] /= "."
    /\ \A i \in 1..(Len(v) - 1) : ~(v[i] = "." /\ v[i + 1] = ".")

\* the i-th numeric component of an integer-dotted version, 0 past its end
Component(v, i) ==
    LET parts == Split(v) IN IF i <= Len(parts) THEN DigitsVal(parts[i]) ELSE 0

\* v is older than w: at the first component where they differ, v's is smaller
NumericallyLess(v, w) ==
    \E k \in 1..(Len(v) + Len(w)) :
        /\ \A j \in 1..(k - 1) : Component(v, j) = Component(w, j)
        /\ Component(v, k) < Component(w, k)

SpecExample ==
    << <<"1", ".", "2", ".", "0">>, <<"1", ".", "1", "0", ".", "0">>,
       <<"1", ".", "9", ".", "0">> >>

\* C7: _get_newest_version returns None for the empty list, and for a
\* non-empty list of integer-dotted versions it returns an element of the
\* list that no other element exceeds numerically ("1.10.0" for the list
\* "1.2.0", "1.10.0", "1.9.0").
C7_NewestIsNumericMax ==
    nvPc = "done" =>
        /\ nvIn = <<>> => nvOut = Ok(None)
        /\ (nvIn /= <<>> /\ \A i \in 1..Len(nvIn) : IsIntDotted(nvIn[i])) =>
              /\ nvOut.ok
              /\ \E i \in 1..Len(nvIn) : nvIn[i] = nvOut.val
              /\ \A i \in 1..Len(nvIn) : ~NumericallyLess(nvOut.val, nvIn[i])
        /\ nvIn = SpecExample => nvOut = Ok(<<"1", ".", "1", "0", ".", "0">>)

C7_Witness ==
    /\ nvPc = "done" /\ nvIn = SpecExample
    /\ nvOut = Ok(<<"1", ".", "1", "0", ".", "0">>)

\* C8: decoding the encoding of a version that contains no "-" gives the
\* version back, and None encodes to the segment "latest".
C8_CodecRoundTrip ==
    /\ (codecPc = "decoded" /\ codecIn /= None /\ ~HasChar(codecIn, "-")) =>
          codecOut = codecIn
    /\ (codecPc \in {"encoded", "decoded"} /\ codecIn = None) =>
          codecSeg = latest

C8_Witness ==
    /\ codecPc = "decoded" /\ codecIn = <<"1", ".", "0">>
    /\ codecSeg = <<"1", "-", "0">> /\ codecOut = codecIn

----------------------------------------------------------------------------
(* load_tool(local=True): the scoped module-search context *)

Callers == {1, 2}

\* sys.path entries
Cwd == <<"work">>
ToolPath(name) == <<"tools", name>>
PathEntries == {Cwd, <<"lib">>, <<"site">>}

\* sys.modules values
ModuleNames == {"Calc", "Tool"}
NoModule == [kind |-> "absent", by |-> 0, seq |-> 0]
PreModule == [kind |-> "pre", by |-> 0, seq |-> 0]
NewModule(t, k) == [kind |-> "loaded", by |-> t, seq |-> k]

\* The local tools directory: what load_tool finds for each tool name.
\*   exists     local_tools_dir / name exists
\*   config     "ok", "missing" (no config.json), "nobuild" (no build.entry),
\*              "nomodule" (no build.module)
\*   module     config["build"]["module"]
\*   entry      what loading the entry file does: "ok", "raises" (the file
\*              raises while executing), "nosymbol" (it defines no attribute
\*              named module), "nospec" (no loader for the file: no module
\*              object is created)
Tool(exists, config, module, entry) ==
    [exists |-> exists, config |-> config, module |-> module, entry |-> entry]

ToolNames ==
    {"calc", "broken", "nosym", "badext", "ghost", "noconf", "nobuild", "nomodule"}

LocalTools ==
    [name \in ToolNames |->
        CASE name = "calc" -> Tool(TRUE, "ok", "Calc", "ok")
          [] name = "broken" -> Tool(TRUE, "ok", "Tool", "raises")
          [] name = "nosym" -> Tool(TRUE, "ok", "Tool", "nosymbol")
          [] name = "badext" -> Tool(TRUE, "ok", "Tool", "nospec")
          [] name = "ghost" -> Tool(FALSE, "missing", "Tool", "ok")
          [] name = "noconf" -> Tool(TRUE, "missing", "Tool", "ok")
          [] name = "nobuild" -> Tool(TRUE, "nobuild", "Tool", "ok")
          [] name = "nomodule" -> Tool(TRUE, "nomodule", "Tool", "ok")]

InList(x, list) == \E i \in 1..Len(list) : list[i] = x

\* what a call is about to do when its finally block has run
NoPending == [kind |-> "none", err |-> "none"]
PendingReturn == [kind |-> "pair", err |-> "none"]
PendingRaise(e) == [kind |-> "raise", err |-> e]

NoFrame ==
    [name |-> "none", current_path |-> <<>>, tool_path |-> <<>>,
     module_name |-> "none", module |-> NoModule, pending |-> NoPending,
     pathBefore |-> <<>>, modsBefore |-> [n \in ModuleNames |-> NoModule],
     pushedCwd |-> FALSE, registered |-> FALSE]

NoLoad ==
    [caller |-> 0, name |-> "none", pushed |-> FALSE, registered |-> FALSE,
     module_name |-> "none", module |-> NoModule, outcome |-> NoPending,
     pathBefore |-> <<>>, modsBefore |-> [n \in ModuleNames |-> NoModule],
     pushedCwd |-> FALSE]

\* line 156 / line 158: sys.path.insert(0, entry)
InsertFront(path, entry) == <<entry>> \o path

\* lines 177 and 179: sys.path.pop(0); err is "IndexError" on an empty list
Pop0(path) ==
    IF Len(path) = 0 THEN [path |-> path, err |-> "IndexError"]
    ELSE [path |-> Tail(path), err |-> "none"]

\* mutant: the registered module is left in sys.modules
MutFinallyModules(mods, module_name) == mods

\* line 183: del sys.modules[module_name]
FinallyModules(mods, module_name) == [mods EXCEPT ![module_name] = NoModule]

\* mutant: the handler prints the error and falls through, as load_local_tool does
MutReraise(pending) == IF pending.kind = "raise" THEN NoPending ELSE pending

\* lines 202-204: except Exception: print(...); raise
Reraise(pending) == pending

\* mutant: a config without build.entry or build.module is let through
MutReadConfig(tool) ==
    IF ~tool.exists \/ tool.config = "missing" THEN "FileNotFoundError" ELSE "none"

\* lines 140-151: the error raised while the tool directory and its config are
\* read ("none": both are there and the config has build.entry and build.module)
ReadConfig(tool) ==
    IF ~tool.exists THEN "FileNotFoundError"
    ELSE IF tool.config = "missing" THEN "FileNotFoundError"
    ELSE IF tool.config \in {"nobuild", "nomodule"} THEN "KeyError"
    ELSE "none"

\* load_tool(local=True) leaves through the handler of lines 202-204 or
\* through the return of line 173, after it got past line 158
EndLoad(t, outcome) ==
    /\ lastLoad' = [caller |-> t, name |-> loadFrame[t].name, pushed |-> TRUE,
                     registered |-> loadFrame[t].registered,
                     module_name |-> loadFrame[t].module_name,
                     module |-> loadFrame[t].module,
                     outcome |-> Reraise(outcome),
                     pathBefore |-> loadFrame[t].pathBefore,
                     modsBefore |-> loadFrame[t].modsBefore,
                     pushedCwd |-> loadFrame[t].pushedCwd]
    /\ loadFrame' = [loadFrame EXCEPT ![t] = NoFrame]
    /\ loadPc' = [loadPc EXCEPT ![t] = "idle"]

\* how many loads a behaviour starts: MaxLoads one after the other, or one per
\* caller when the callers overlap
LoadBudget == IF serialized THEN MaxLoads ELSE Cardinality(Callers)

\* the tools overlapping callers load
OverlapTools == {"calc", "nosym", "noconf"}
LoadNames == IF serialized THEN ToolNames ELSE OverlapTools

\* lines 138-154 of load_tool: find the tool, read its config, take the cwd
LoadBegin(t, name) ==
    /\ loadPc[t] = "idle"
    /\ nLoads < LoadBudget
    /\ nLoads' = nLoads + 1
    /\ LET tool == LocalTools[name]
           err == ReadConfig(tool)
       IN IF err /= "none"
          THEN /\ lastLoad' = [NoLoad EXCEPT !.caller = t, !.name = name,
                                  !.outcome = Reraise(PendingRaise(err)),
                                  !.pathBefore = sysPath, !.modsBefore = sysModules]
               /\ UNCHANGED <<loadPc, loadFrame>>
          ELSE /\ loadFrame' = [loadFrame EXCEPT ![t] =
                      [NoFrame EXCEPT !.name = name, !.current_path = Cwd,
                                      !.tool_path = ToolPath(name),
                                      !.module_name = tool.module,
                                      !.pathBefore = sysPath,
                                      !.modsBefore = sysModules]]
               /\ loadPc' = [loadPc EXCEPT ![t] = "checkCwd"]
               /\ UNCHANGED lastLoad
    /\ UNCHANGED <<sysPath, sysModules, pathAtStart, serialized,
                   codecVars, nvVars, cacheVars, pkVars>>

\* line 155: if current_path not in sys.path
LoadCheckCwd(t) ==
    /\ loadPc[t] = "checkCwd"
    /\ LET absent == ~InList(loadFrame[t].current_path, sysPath)
       IN /\ loadFrame' = [loadFrame EXCEPT ![t].pushedCwd = absent]
          /\ loadPc' = [loadPc EXCEPT ![t] =
                            IF absent THEN "insertCwd" ELSE "insertTool"]
    /\ UNCHANGED <<sysPath, sysModules, lastLoad, nLoads, pathAtStart, serialized,
                   codecVars, nvVars, cacheVars, pkVars>>

\* line 156: sys.path.insert(0, current_path)
LoadInsertCwd(t) ==
    /\ loadPc[t] = "insertCwd"
    /\ sysPath' = InsertFront(sysPath, loadFrame[t].current_path)
    /\ loadPc' = [loadPc EXCEPT ![t] = "insertTool"]
    /\ UNCHANGED <<sysModules, loadFrame, lastLoad, nLoads, pathAtStart, serialized,
                   codecVars, nvVars, cacheVars, pkVars>>

\* line 158: sys.path.insert(0, str(tool_path))
LoadInsertTool(t) ==
    /\ loadPc[t] = "insertTool"
    /\ sysPath' = InsertFront(sysPath, loadFrame[t].tool_path)
    /\ loadPc' = [loadPc EXCEPT ![t] = "pushed"]
    /\ UNCHANGED <<sysModules, loadFrame, lastLoad, nLoads, pathAtStart, serialized,
                   codecVars, nvVars, cacheVars, pkVars>>

\* lines 162-168: create the module object and register it in sys.modules
LoadRegister(t) ==
    /\ loadPc[t] = "pushed"
    /\ LET f == loadFrame[t]
           m == NewModule(t, nLoads)
       IN IF LocalTools[f.name].entry = "nospec"
          THEN /\ loadFrame' = [loadFrame EXCEPT
                                    ![t].pending = PendingRaise("AttributeError")]
               /\ loadPc' = [loadPc EXCEPT ![t] = "finally"]
               /\ UNCHANGED sysModules
          ELSE /\ sysModules' = [sysModules EXCEPT ![f.module_name] = m]
               /\ loadFrame' = [loadFrame EXCEPT ![t].module = m,
                                                  ![t].registered = TRUE]
               /\ loadPc' = [loadPc EXCEPT ![t] = "executing"]
    /\ UNCHANGED <<sysPath, lastLoad, nLoads, pathAtStart, serialized,
                   codecVars, nvVars, cacheVars, pkVars>>

\* lines 169-173: execute the entry file, then look the tool class up in it
LoadExec(t) ==
    /\ loadPc[t] = "executing"
    /\ LET entry == LocalTools[loadFrame[t].name].entry
           pending == IF entry = "raises" THEN PendingRaise("EntryError")
                      ELSE IF entry = "nosymbol" THEN PendingRaise("AttributeError")
                      ELSE PendingReturn
       IN loadFrame' = [loadFrame EXCEPT ![t].pending = pending]
    /\ loadPc' = [loadPc EXCEPT ![t] = "finally"]
    /\ UNCHANGED <<sysPath, sysModules, lastLoad, nLoads, pathAtStart, serialized,
                   codecVars, nvVars, cacheVars, pkVars>>

\* line 177: sys.path.pop(0); an IndexError leaves the finally block at once
LoadPop(t) ==
    /\ loadPc[t] = "finally"
    /\ LET popped == Pop0(sysPath)
       IN IF popped.err /= "none"
          THEN /\ EndLoad(t, PendingRaise(popped.err))
               /\ UNCHANGED sysPath
          ELSE /\ sysPath' = popped.path
               /\ loadPc' = [loadPc EXCEPT ![t] = "compare"]
               /\ UNCHANGED <<loadFrame, lastLoad>>
    /\ UNCHANGED <<sysModules, nLoads, pathAtStart, serialized,
                   codecVars, nvVars, cacheVars, pkVars>>

\* line 178: if current_path == sys.path[0]
LoadCompare(t) ==
    /\ loadPc[t] = "compare"
    /\ IF Len(sysPath) = 0
       THEN EndLoad(t, PendingRaise("IndexError"))
       ELSE /\ loadPc' = [loadPc EXCEPT ![t] =
                              IF loadFrame[t].current_path = sysPath[1]
                              THEN "popCwd" ELSE "checkModule"]
            /\ UNCHANGED <<loadFrame, lastLoad>>
    /\ UNCHANGED <<sysPath, sysModules, nLoads, pathAtStart, serialized,
                   codecVars, nvVars, cacheVars, pkVars>>

\* line 179: sys.path.pop(0)
LoadPopCwd(t) ==
    /\ loadPc[t] = "popCwd"
    /\ LET popped == Pop0(sysPath)
       IN IF popped.err /= "none"
          THEN /\ EndLoad(t, PendingRaise(popped.err))
               /\ UNCHANGED sysPath
          ELSE /\ sysPath' = popped.path
               /\ loadPc' = [loadPc EXCEPT ![t] = "checkModule"]
               /\ UNCHANGED <<loadFrame, lastLoad>>
    /\ UNCHANGED <<sysModules, nLoads, pathAtStart, serialized,
                   codecVars, nvVars, cacheVars, pkVars>>

\* line 182: if module_name in sys.modules; when it is not, the finally block
\* is over and the call returns or re-raises (lines 173, 202-204)
LoadCheckModule(t) ==
    /\ loadPc[t] = "checkModule"
    /\ IF sysModules[loadFrame[t].module_name] = NoModule
       THEN EndLoad(t, loadFrame[t].pending)
       ELSE /\ loadPc' = [loadPc EXCEPT ![t] = "delModule"]
            /\ UNCHANGED <<loadFrame, lastLoad>>
    /\ UNCHANGED <<sysPath, sysModules, nLoads, pathAtStart, serialized,
                   codecVars, nvVars, cacheVars, pkVars>>

\* line 183: del sys.modules[module_name] (KeyError when the name is gone),
\* then the return or the re-raise (lines 173, 202-204)
LoadDelModule(t) ==
    /\ loadPc[t] = "delModule"
    /\ IF sysModules[loadFrame[t].module_name] = NoModule
       THEN /\ EndLoad(t, PendingRaise("KeyError"))
            /\ UNCHANGED sysModules
       ELSE /\ sysModules' = FinallyModules(sysModules, loadFrame[t].module_name)
            /\ EndLoad(t, loadFrame[t].pending)
    /\ UNCHANGED <<sysPath, nLoads, pathAtStart, serialized,
                   codecVars, nvVars, cacheVars, pkVars>>

\* Callers that keep to the critical section start with any sys.path and any
\* registry; callers that overlap start from a short sys.path.
InitLoad ==
    /\ serialized \in BOOLEAN
    /\ sysPath \in (IF serialized THEN SeqsUpTo(PathEntries, MaxPathLen)
                    ELSE {<<>>, <<Cwd>>, << <<"lib">> >>})
    /\ sysModules \in (IF serialized THEN [ModuleNames -> {NoModule, PreModule}]
                       ELSE {[n \in ModuleNames |-> NoModule]})
    /\ loadPc = [t \in Callers |-> "idle"]
    /\ loadFrame = [t \in Callers |-> NoFrame]
    /\ lastLoad = NoLoad
    /\ nLoads = 0
    /\ pathAtStart = sysPath
    /\ codecIdle /\ nvIdle /\ cacheOff /\ pkOff

\* What the callers do, not the code: with serialized they treat load_tool as
\* a critical section, so a caller steps only while no other load is under
\* way; without it the steps of two calls interleave in any order.
Exclusive(t) == serialized => \A u \in Callers \ {t} : loadPc[u] = "idle"

NextLoad ==
    \/ \E t \in Callers, name \in LoadNames : Exclusive(t) /\ LoadBegin(t, name)
    \/ \E t \in Callers : Exclusive(t) /\ LoadCheckCwd(t)
    \/ \E t \in Callers : Exclusive(t) /\ LoadInsertCwd(t)
    \/ \E t \in Callers : Exclusive(t) /\ LoadInsertTool(t)
    \/ \E t \in Callers : Exclusive(t) /\ LoadRegister(t)
    \/ \E t \in Callers : Exclusive(t) /\ LoadExec(t)
    \/ \E t \in Callers : Exclusive(t) /\ LoadPop(t)
    \/ \E t \in Callers : Exclusive(t) /\ LoadCompare(t)
    \/ \E t \in Callers : Exclusive(t) /\ LoadPopCwd(t)
    \/ \E t \in Callers : Exclusive(t) /\ LoadCheckModule(t)
    \/ \E t \in Callers : Exclusive(t) /\ LoadDelModule(t)

SpecLoad == InitLoad /\ [][NextLoad]_vars

AllIdle == \A t \in Callers : loadPc[t] = "idle"

\* C1: after a local load that pushed onto the scope, the scope is what it
\* was before the call, whether the load returned or failed partway (loads
\* run one at a time).
C1_ScopeRestored ==
    (serialized /\ AllIdle /\ lastLoad.pushed) => sysPath = lastLoad.pathBefore

\* C2: when a local load returns or raises, the module it registered under
\* the tool's module name is no longer in the registry (loads run one at a
\* time).
C2_ModuleRemoved ==
    (serialized /\ AllIdle /\ lastLoad.pushed /\ lastLoad.registered) =>
        /\ sysModules[lastLoad.module_name] /= lastLoad.module
        /\ sysModules[lastLoad.module_name] = NoModule

C2_Witness ==
    /\ serialized /\ AllIdle /\ lastLoad.registered
    /\ lastLoad.outcome = PendingRaise("EntryError")
    /\ sysModules[lastLoad.module_name] = NoModule

\* C12: a local load of a tool whose directory or config.json is missing
\* fails with FileNotFoundError, and one whose config lacks build.entry or
\* build.module fails with KeyError (the configuration error); in each case
\* nothing was pushed or registered: sys.path and sys.modules are what they
\* were before the call.
C12_EarlyFailuresLeaveScope ==
    (serialized /\ AllIdle /\ lastLoad.name \in {"ghost", "noconf", "nobuild", "nomodule"}) =>
        /\ lastLoad.name \in {"ghost", "noconf"} =>
              lastLoad.outcome = PendingRaise("FileNotFoundError")
        /\ lastLoad.name \in {"nobuild", "nomodule"} =>
              lastLoad.outcome = PendingRaise("KeyError")
        /\ ~lastLoad.pushed /\ ~lastLoad.registered
        /\ sysPath = lastLoad.pathBefore
        /\ sysModules = lastLoad.modsBefore

C12_Witness ==
    /\ serialized /\ AllIdle /\ lastLoad.name = "nobuild"
    /\ lastLoad.outcome = PendingRaise("KeyError")
    /\ sysPath = <<Cwd, <<"lib">> >> /\ lastLoad.pathBefore = sysPath
    /\ sysModules["Tool"] = PreModule

----------------------------------------------------------------------------
(* The tool cache: cache_dir/<author>/<name>/<stem>.tool *)

Authors == {"alice"}
Names == {"calc", "plot"}

V1_9 == <<"1", ".", "9">>
V1_10 == <<"1", ".", "1", "0">>
V1_b == <<"1", ".", "b">>

\* versions a caller asks for (None: unpinned) and versions the registry sends
RequestVersions == {None, V1_9, V1_10}
PayloadVersions == {None, V1_9, V1_10, V1_b}

Stems == {_version_to_path(v) : v \in RequestVersions \cup PayloadVersions}
CachePaths == Authors \X Names \X Stems

\* requirements.txt of a package, as its lines; NoFile: the package has none
NoFile == << <<"<nofile>">> >>
ReqsNp == << <<"n", "p", "=", "=", "1">> >>

\* a cache file as ToolPackage persists it
NoMeta == [author |-> "none", name |-> "none", version |-> None]
Absent ==
    [present |-> FALSE, corrupt |-> FALSE, writes |-> 0, metadata |-> NoMeta,
     files |-> NoFile]

\* ToolPackage(path).save(): writes metadata and files to path, creating the
\* parent directories and replacing what was there; a writer that fails
\* mid-write ("partial") leaves an unreadable entry behind
ToolPackage_save(c, path, metadata, files, io) ==
    [c EXCEPT ![path] = [present |-> TRUE, corrupt |-> (io = "partial"),
                         writes |-> @.writes + 1, metadata |-> metadata,
                         files |-> files]]

\* ToolPackage(path).load(): the error it fails with, "none" when it succeeds
ToolPackage_load(c, path) ==
    IF ~c[path].present THEN "NotFoundError"
    ELSE IF c[path].corrupt THEN "CorruptPackageError"
    ELSE "none"

\* line 224-226
_get_cache_path(author, name, version) == <<author, name, _version_to_path(version)>>

\* the entries of cache_dir/author/name, each [stem, ext, kind]
DirEntries(c, other, author, name) ==
    {[stem |-> path[3], ext |-> "tool", kind |-> "file"] :
        path \in {q \in CachePaths : q[1] = author /\ q[2] = name /\ c[q].present}}
    \cup {[stem |-> e.stem, ext |-> e.ext, kind |-> e.kind] :
            e \in {x \in other : x.author = author /\ x.name = name}}

\* all orders in which a directory scan can yield a set of entries
RECURSIVE Orderings(_)
Orderings(S) ==
    IF S = {} THEN {<<>>}
    ELSE UNION {{<<x>> \o rest : rest \in Orderings(S \ {x})} : x \in S}

\* the possible results of tool_dir.glob("*"), empty when tool_dir is missing
DirListings(c, other, author, name) == Orderings(DirEntries(c, other, author, name))

\* mutant: every directory entry is taken for a cached version
Mut_get_cached_versions(listing) ==
    [i \in 1..Len(listing) |-> _path_to_version(listing[i].stem)]

\* lines 206-215, given the directory's entries in scan order
_get_cached_versions(listing) ==
    LET tools == SelectSeq(listing, LAMBDA e : e.ext = "tool" /\ e.kind = "file")
    IN [i \in 1..Len(tools) |-> _path_to_version(tools[i].stem)]

----------------------------------------------------------------------------
(* check_reqs_installed / install_tool_reqs *)

\* str.strip() of blanks
RECURSIVE LStrip(_)
LStrip(s) == IF Len(s) > 0 /\ s[1] = " " THEN LStrip(Tail(s)) ELSE s
RECURSIVE RStrip(_)
RStrip(s) ==
    IF Len(s) > 0 /\ s[Len(s)] = " " THEN RStrip(SubSeq(s, 1, Len(s) - 1)) ELSE s
Strip(s) == RStrip(LStrip(s))

\* s.split("==")[0]
BeforeEqEq(s) ==
    LET hits == {i \in 1..(Len(s) - 1) : s[i] = "=" /\ s[i + 1] = "="}
    IN IF hits = {} THEN s
       ELSE SubSeq(s, 1, (CHOOSE i \in hits : \A j \in hits : i <= j) - 1)

\* the letters of the model's package names that have an upper case
UpperLetters == <<"N", "P", "D">>
LowerLetters == <<"n", "p", "d">>

\* mutant: names are compared as they are written
MutLower(s) == s

\* str.lower()
Lower(s) ==
    [i \in 1..Len(s) |->
        IF \E k \in 1..Len(UpperLetters) : UpperLetters[k] = s[i]
        THEN LowerLetters[CHOOSE k \in 1..Len(UpperLetters) : UpperLetters[k] = s[i]]
        ELSE s[i]]

\* what "pip list --format=freeze" does: fails to run, or prints lines
PipFails == [fails |-> TRUE, lines |-> <<>>]
PipPrints(lines) == [fails |-> FALSE, lines |-> lines]

\* lines 280-283
InstalledPackages(pip) ==
    {Lower(BeforeEqEq(pip.lines[i])) : i \in 1..Len(pip.lines)}

\* lines 284-288
RequiredPackages(reqs) ==
    {Lower(BeforeEqEq(Strip(reqs[i]))) :
        i \in {k \in 1..Len(reqs) : Strip(reqs[k]) /= <<>> /\
                                   ~(Len(reqs[k]) > 0 /\ reqs[k][1] = "#")}}

\* lines 271-272: not reqs_content
NoReqs(reqs) == reqs = NoFile \/ reqs = <<>>

\* lines 274-292: the answer once pip list has run or failed to run, for the
\* requirements read at line 269
ReqsSatisfied(reqs, pip) ==
    IF pip.fails THEN FALSE
    ELSE RequiredPackages(reqs) \subseteq InstalledPackages(pip)

InstallerOutcomes == {"ok", "nonzero", "oserror"}

TempReqs == "temp_requirements.txt"

\* mutant: the scratch file is left behind
MutUnlink(files, f) == files

\* temp_reqs_path.unlink(missing_ok=True)
Unlink(files, f) == files \ {f}

----------------------------------------------------------------------------
(* download_tool and load_tool(local=False) *)

\* what a call hands back
RetTriple(author, name, version) ==
    [kind |-> "triple", err |-> "none", author |-> author, name |-> name,
     version |-> version]
RetRaise(e) ==
    [kind |-> "raise", err |-> e, author |-> "none", name |-> "none", version |-> None]
RetNone ==
    [kind |-> "none", err |-> "none", author |-> "none", name |-> "none", version |-> None]
RetPair ==
    [kind |-> "pair", err |-> "none", author |-> "none", name |-> "none", version |-> None]
RetBool(b) ==
    [kind |-> IF b THEN "true" ELSE "false", err |-> "none", author |-> "none",
     name |-> "none", version |-> None]

\* the registry's answer to GET /cerebrum/tools/download:
\*   kind "error"       the request fails or raise_for_status() raises
\*   kind "incomplete"  a JSON body without the "version" key
\*   kind "payload"     a JSON body with all the keys _save_tool_to_cache reads
Response(kind, author, name, version, files) ==
    [kind |-> kind, author |-> author, name |-> name, version |-> version,
     files |-> files]
NetError == Response("error", "none", "none", None, NoFile)
Incomplete(author, name) == Response("incomplete", author, name, None, NoFile)

\* what the outside world did during one call: the registry's response, how
\* the write of the cache file went, what pip list printed and how the
\* installer ended
World(response, io, pip, installer) ==
    [response |-> response, io |-> io, pip |-> pip, installer |-> installer]

PipSatisfied == PipPrints(<< <<"N", "p", "=", "=", "1">> >>)

\* the answers the registry may give to a request for (author, name)
Responses(author, name) ==
    {NetError, Incomplete(author, name),
     Response("payload", "mallory", "other", V1_10, NoFile),
     Response("payload", author, name, V1_9, ReqsNp)}
    \cup {Response("payload", author, name, v, NoFile) : v \in PayloadVersions}

SaveOutcomes == {"ok", "partial"}

\* how the write of a response may go: the model lets one payload fail mid-write
SaveIo(response) ==
    IF response.kind = "payload" /\ response.version = V1_9 /\ response.files = NoFile
    THEN SaveOutcomes ELSE {"ok"}

\* what pip list --format=freeze prints, or its failure to run
ReqsPipOutputs ==
    { PipFails, PipPrints(<<>>), PipSatisfied,
      PipPrints(<< <<"n", "p", "=", "=", "1">>, <<"p", "d", "=", "=", "3">> >>),
      PipPrints(<< <<"P", "D", "=", "=", "1">> >>) }

\* what pip list may do when line 275 runs it: for a check_reqs_installed
\* call of its own every output above, inside download_tool three of them
PipRuns(op) ==
    IF op = "check_reqs_installed" THEN ReqsPipOutputs
    ELSE {PipFails, PipPrints(<<>>), PipSatisfied}

\* lines 228-243: [err, cache]
_save_tool_to_cache(c, tool_data, cache_path, io) ==
    IF tool_data.kind = "incomplete" THEN [err |-> "KeyError", cache |-> c]
    ELSE [err |-> IF io = "partial" THEN "OSError" ELSE "none",
          cache |-> ToolPackage_save(c, cache_path,
                       [author |-> tool_data.author, name |-> tool_data.name,
                        version |-> tool_data.version],
                       tool_data.files, io)]

\* mutant: the package is filed under the version that was asked for
MutActualVersion(response, version) == version

\* line 116: tool_data.get("version", version)
ActualVersion(response, version) ==
    IF response.kind = "incomplete" THEN version ELSE response.version

\* mutant: the cache is never consulted
MutCacheHit(c, cache_path) == FALSE

\* line 100: cache_path is not None and cache_path.exists()
CacheHit(c, cache_path) == c[cache_path].present

\* lines 91-93 and 187-189: the version to look for, the newest cached one
\* when none is given
ResolveVersion(version, listing) ==
    IF version = None THEN _get_newest_version(_get_cached_versions(listing))
    ELSE Ok(version)

\* lines 296-302 of install_tool_reqs: the error ToolPackage.load() raised,
\* "noreqs" when the package has no requirements (the call returns), "write"
\* when the scratch file is to be written
InstallOpen(c, tool_path) ==
    LET err == ToolPackage_load(c, tool_path)
    IN IF err /= "none" THEN err
       ELSE IF NoReqs(c[tool_path].files) THEN "noreqs"
       ELSE "write"

----------------------------------------------------------------------------
(* Cache operations as actions.  A call is a sequence of steps, one for each *)
(* stretch of code between two waits (the registry's response, pip list,     *)
(* the installer); the steps of two callers interleave.                      *)

NoWorld == World(NetError, "ok", PipFails, "ok")

NoPath == <<"none", "none", <<>> >>

\* a finished call: its arguments, the world it ran in, what it handed back,
\* the steps it took, for _get_cached_versions the list it returned, its
\* place among the calls made, and for load_tool the tool_path of line 191
Call(op, author, name, version, world, out, trace, seq) ==
    [op |-> op, author |-> author, name |-> name, version |-> version,
     world |-> world, out |-> out, trace |-> trace, listed |-> <<>>, seq |-> seq,
     tool_path |-> NoPath]

NoCall == Call("none", "none", "none", None, NoWorld, RetNone, <<>>, 0)

\* the locals of a call under way:
\*   op, author, name, version   the call and its arguments
\*   seq                         its place among the calls made
\*   dlVersion                   download_tool's version after lines 91-93
\*   tool_path                   load_tool's tool_path (line 191)
\*   reqs_path                   install_tool_reqs's tool_path argument
\*   actual, cache_path          download_tool's actual_version and cache_path (116-119)
\*   tool_data                   the registry's response (line 114)
\*   reqs_content                the requirements.txt read from the package
\*                               (lines 269 and 298)
\*   wrote                       the call has written the cache
\*   found                       the installer found the scratch file when it
\*                               started
CallFrame(op, author, name, version, seq) ==
    [op |-> op, author |-> author, name |-> name, version |-> version,
     seq |-> seq, dlVersion |-> None, tool_path |-> NoPath,
     reqs_path |-> NoPath, actual |-> None,
     cache_path |-> NoPath, tool_data |-> NetError, reqs_content |-> NoFile,
     world |-> NoWorld,
     trace |-> <<>>, wrote |-> FALSE, found |-> FALSE]

NoCallFrame == CallFrame("none", "none", "none", None, 0)

EmptyCache == [path \in CachePaths |-> Absent]

\* directory entries that no cache operation wrote: the text file
\* cache_dir/alice/calc/notes.txt and the directory cache_dir/alice/plot/old.tool
ForeignEntries ==
    {[author |-> "alice", name |-> "calc", stem |-> <<"n", "o", "t", "e", "s">>,
      ext |-> "txt", kind |-> "file"],
     [author |-> "alice", name |-> "plot", stem |-> <<"o", "l", "d">>,
      ext |-> "tool", kind |-> "dir"]}

\* how many calls a behaviour makes: MaxCalls one after the other, or one per
\* caller when the callers overlap
CallBudget == IF serialized THEN MaxCalls ELSE Cardinality(Callers)

\* what the callers ask for; overlapping callers ask for the same tool
CallNames == IF serialized THEN Names ELSE {"calc"}
CallVersions == IF serialized THEN RequestVersions ELSE {None, V1_9}

\* the call's frame changes and it goes on at pc
Goto(t, f, pc) ==
    /\ callFrame' = [callFrame EXCEPT ![t] = f]
    /\ callPc' = [callPc EXCEPT ![t] = pc]
    /\ UNCHANGED lastCall

\* the call of frame f hands back out
Returns(t, f, out) ==
    /\ lastCall' = [Call(f.op, f.author, f.name, f.version, f.world, out,
                         f.trace, f.seq)
                       EXCEPT !.tool_path = f.tool_path]
    /\ callFrame' = [callFrame EXCEPT ![t] = NoCallFrame]
    /\ callPc' = [callPc EXCEPT ![t] = "idle"]

\* download_tool hands back out (lines 102, 127, or an exception): to its
\* caller, or to line 195 of load_tool, which goes on when it did not raise
DownloadReturns(t, f, out) ==
    /\ downloads' = IF out.kind = "triple"
                    THEN downloads \cup {<<out.author, out.name, out.version>>}
                    ELSE downloads
    /\ orphaned' = (orphaned \/ (out.kind = "raise" /\ f.wrote))
    /\ IF f.op = "load_tool" /\ out.kind /= "raise"
       THEN Goto(t, f, "load")
       ELSE Returns(t, f, out)

\* install_tool_reqs is over, with err the error that propagates ("none":
\* it returns): to its caller, or to line 125 of download_tool
InstallReturns(t, f, err) ==
    IF f.op = "install_tool_reqs"
    THEN /\ Returns(t, f, IF err /= "none" THEN RetRaise(err) ELSE RetNone)
         /\ UNCHANGED <<downloads, orphaned>>
    ELSE DownloadReturns(t, f, IF err /= "none" THEN RetRaise(err)
                               ELSE RetTriple(f.author, f.name, f.actual))

\* lines 95-102 of download_tool, on frame f with f.dlVersion resolved: the
\* cache file exists and the call returns, or it goes on to the registry
LookInCache(t, f) ==
    IF CacheHit(cache, _get_cache_path(f.author, f.name, f.dlVersion))
    THEN DownloadReturns(t, [f EXCEPT !.trace = Append(@, "cache_hit")],
                         RetTriple(f.author, f.name, f.dlVersion))
    ELSE /\ Goto(t, f, "request")
         /\ UNCHANGED <<downloads, orphaned>>

\* lines 91-102 of download_tool on frame f, whose f.dlVersion is the version
\* argument.  A given version is looked up at once (line 100 is the first
\* line to read the cache); without one the directory is listed (line 92)
\* and the lookup is a later step.
EnterDownload(t, f) ==
    IF f.dlVersion /= None THEN LookInCache(t, f)
    ELSE \E listing \in DirListings(cache, foreign, f.author, f.name) :
         \E resolved \in {ResolveVersion(None, listing)} :
            LET g == [f EXCEPT !.trace = Append(@, "list_cached")]
            IN IF ~resolved.ok THEN DownloadReturns(t, g, RetRaise(resolved.err))
               ELSE /\ Goto(t, [g EXCEPT !.dlVersion = resolved.val], "lookup")
                    /\ UNCHANGED <<downloads, orphaned>>

\* lines 87-102: download_tool is called
DownloadTool(t, author, name, version) ==
    /\ callPc[t] = "idle"
    /\ nCalls < CallBudget
    /\ nCalls' = nCalls + 1
    /\ EnterDownload(t, [CallFrame("download_tool", author, name, version, nCalls + 1)
                            EXCEPT !.dlVersion = version])
    /\ UNCHANGED <<cache, rootFiles, foreign, codecVars, nvVars, loadVars, pkVars>>

\* lines 95-102: the lookup of the version that line 92 resolved
CacheCheck(t) ==
    /\ callPc[t] = "lookup"
    /\ LookInCache(t, callFrame[t])
    /\ UNCHANGED <<cache, rootFiles, nCalls, foreign, codecVars, nvVars, loadVars, pkVars>>

\* lines 191-195 of load_tool, on frame f with f.dlVersion resolved: the cache
\* file exists and is loaded next, or download_tool is called
LookForPackage(t, f) ==
    LET tool_path == _get_cache_path(f.author, f.name, f.dlVersion)
        g == [f EXCEPT !.tool_path = tool_path]
    IN IF cache[tool_path].present
       THEN Goto(t, g, "load")
       ELSE Goto(t, [g EXCEPT !.trace = Append(@, "download_tool")], "download")

\* lines 185-195 of load_tool(local=False): a given version is looked for at
\* once (line 193 is the first line to read the cache); without one the
\* directory is listed (line 188) and the look is a later step
LoadToolRemote(t, author, name, version) ==
    /\ callPc[t] = "idle"
    /\ nCalls < CallBudget
    /\ nCalls' = nCalls + 1
    /\ LET f == [CallFrame("load_tool", author, name, version, nCalls + 1)
                    EXCEPT !.dlVersion = version]
       IN IF version /= None THEN LookForPackage(t, f)
          ELSE \E listing \in DirListings(cache, foreign, author, name) :
               \E resolved \in {ResolveVersion(None, listing)} :
                  LET g == [f EXCEPT !.trace = Append(@, "list_cached")]
                  IN IF ~resolved.ok THEN Returns(t, g, RetRaise(resolved.err))
                     ELSE Goto(t, [g EXCEPT !.dlVersion = resolved.val], "exists")
    /\ UNCHANGED <<cache, rootFiles, downloads, orphaned, foreign,
                   codecVars, nvVars, loadVars, pkVars>>

\* lines 191-195: the look for the version that line 188 resolved
RemoteExists(t) ==
    /\ callPc[t] = "exists"
    /\ LookForPackage(t, callFrame[t])
    /\ UNCHANGED <<cache, rootFiles, downloads, orphaned, nCalls, foreign,
                   codecVars, nvVars, loadVars, pkVars>>

\* lines 87-102, for the download_tool call of line 195
DownloadEnter(t) ==
    /\ callPc[t] = "download"
    /\ EnterDownload(t, callFrame[t])
    /\ UNCHANGED <<cache, rootFiles, nCalls, foreign, codecVars, nvVars, loadVars, pkVars>>

\* lines 104-114: the request, the wait for the registry, its response
Request(t) ==
    /\ callPc[t] = "request"
    /\ LET f == callFrame[t] IN
       \E response \in Responses(f.author, f.name) :
          LET g == [f EXCEPT !.tool_data = response, !.world.response = response,
                             !.trace = Append(f.trace, "http_get")]
          IN IF response.kind = "error"
             THEN DownloadReturns(t, g, RetRaise("HTTPError"))
             ELSE /\ Goto(t, g, "save")
                  /\ UNCHANGED <<downloads, orphaned>>
    /\ UNCHANGED <<cache, rootFiles, nCalls, foreign, codecVars, nvVars, loadVars, pkVars>>

\* lines 116-119: actual_version, cache_path, _save_tool_to_cache
Save(t) ==
    /\ callPc[t] = "save"
    /\ LET f == callFrame[t] IN
       \E io \in SaveIo(f.tool_data) :
          LET actual_version == ActualVersion(f.tool_data, f.dlVersion)
              cache_path == _get_cache_path(f.author, f.name, actual_version)
              saved == _save_tool_to_cache(cache, f.tool_data, cache_path, io)
              g == [f EXCEPT !.actual = actual_version, !.cache_path = cache_path,
                             !.world.io = io, !.wrote = (saved.cache /= cache),
                             !.trace = Append(f.trace, "save")]
          IN /\ cache' = saved.cache
             /\ IF saved.err /= "none"
                THEN DownloadReturns(t, g, RetRaise(saved.err))
                ELSE /\ Goto(t, g, "check")
                     /\ UNCHANGED <<downloads, orphaned>>
    /\ UNCHANGED <<rootFiles, nCalls, foreign, codecVars, nvVars, loadVars, pkVars>>

\* line 124, lines 265-272 of check_reqs_installed(cache_path): the package
\* is loaded and its requirements.txt read; without one the answer is True
CheckReqs(t) ==
    /\ callPc[t] = "check"
    /\ LET f == callFrame[t]
           err == ToolPackage_load(cache, f.cache_path)
           reqs == cache[f.cache_path].files
           g == [f EXCEPT !.trace = Append(f.trace, "check_reqs")]
       IN IF err /= "none" THEN DownloadReturns(t, g, RetRaise(err))
          ELSE IF NoReqs(reqs)
          THEN DownloadReturns(t, g, RetTriple(f.author, f.name, f.actual))
          ELSE /\ Goto(t, [g EXCEPT !.reqs_content = reqs], "pip")
               /\ UNCHANGED <<downloads, orphaned>>
    /\ UNCHANGED <<cache, rootFiles, nCalls, foreign, codecVars, nvVars, loadVars, pkVars>>

\* lines 274-292: pip list has run or failed to run, and the requirements
\* read before the wait are compared with what it printed.  The answer goes
\* to the caller of check_reqs_installed, or to lines 124-127 of
\* download_tool, which returns or goes on to install_tool_reqs.
PipList(t) ==
    /\ callPc[t] = "pip"
    /\ LET f == callFrame[t] IN
       \E pip \in PipRuns(f.op) :
          LET g == [f EXCEPT !.world.pip = pip]
              satisfied == ReqsSatisfied(f.reqs_content, pip)
          IN IF f.op = "check_reqs_installed"
             THEN /\ Returns(t, g, RetBool(satisfied))
                  /\ UNCHANGED <<downloads, orphaned>>
             ELSE IF satisfied
             THEN DownloadReturns(t, g, RetTriple(f.author, f.name, f.actual))
             ELSE /\ Goto(t, [g EXCEPT !.reqs_path = f.cache_path], "install")
                  /\ UNCHANGED <<downloads, orphaned>>
    /\ UNCHANGED <<cache, rootFiles, nCalls, foreign, codecVars, nvVars, loadVars, pkVars>>

\* lines 294-302 on frame f, whose f.reqs_path is the tool_path argument: the
\* package is loaded; the call is over when that fails or when there are no
\* requirements, else the scratch file is written next
InstallEnter(t, f) ==
    LET open == InstallOpen(cache, f.reqs_path)
    IN IF open = "write"
       THEN /\ Goto(t, [f EXCEPT !.reqs_content = cache[f.reqs_path].files], "write")
            /\ UNCHANGED <<downloads, orphaned>>
       ELSE InstallReturns(t, f, IF open = "noreqs" THEN "none" ELSE open)

\* lines 294-302, for the install_tool_reqs call of line 125
InstallLoad(t) ==
    /\ callPc[t] = "install"
    /\ InstallEnter(t, callFrame[t])
    /\ UNCHANGED <<cache, rootFiles, nCalls, foreign, codecVars, nvVars, loadVars, pkVars>>

\* lines 294-302: install_tool_reqs(tool_path) is called for the cache file of
\* (author, name, version)
InstallToolReqs(t, author, name, version) ==
    /\ callPc[t] = "idle"
    /\ nCalls < CallBudget
    /\ nCalls' = nCalls + 1
    /\ InstallEnter(t, [CallFrame("install_tool_reqs", author, name, version, nCalls + 1)
                           EXCEPT !.reqs_path = _get_cache_path(author, name, version)])
    /\ UNCHANGED <<cache, rootFiles, foreign, codecVars, nvVars, loadVars, pkVars>>

\* lines 305-307: the scratch file is created in the cache root and the
\* requirements are written to it
InstallWrite(t) ==
    /\ callPc[t] = "write"
    /\ rootFiles' = rootFiles \cup {TempReqs}
    /\ Goto(t, [callFrame[t] EXCEPT !.trace = Append(@, "install")], "installer")
    /\ UNCHANGED <<cache, downloads, orphaned, nCalls, foreign,
                   codecVars, nvVars, loadVars, pkVars>>

\* line 311: check_call starts the installer, which opens the scratch file;
\* or the process cannot be started and the OSError goes through the finally
\* block
InstallStart(t) ==
    /\ callPc[t] = "installer"
    /\ \/ Goto(t, [callFrame[t] EXCEPT !.found = (TempReqs \in rootFiles)], "installing")
       \/ Goto(t, [callFrame[t] EXCEPT !.world.installer = "oserror"], "unlink")
    /\ UNCHANGED <<cache, rootFiles, downloads, orphaned, nCalls, foreign,
                   codecVars, nvVars, loadVars, pkVars>>

\* how an installer that has started may end: it succeeds only on a
\* requirements file it found when it opened it, whatever has become of the
\* file since
InstallerRuns(found) ==
    IF found THEN InstallerOutcomes \ {"oserror"} ELSE {"nonzero"}

\* lines 311-316: the wait for the installer is over; a non-zero exit is
\* caught and printed
InstallRun(t) ==
    /\ callPc[t] = "installing"
    /\ \E installer \in InstallerRuns(callFrame[t].found) :
          /\ Goto(t, [callFrame[t] EXCEPT !.world.installer = installer], "unlink")
          /\ UNCHANGED <<downloads, orphaned>>
    /\ UNCHANGED <<cache, rootFiles, nCalls, foreign, codecVars, nvVars, loadVars, pkVars>>

\* lines 317-318: the scratch file is unlinked, then install_tool_reqs returns
\* or lets the OSError of an installer that could not be started through
InstallUnlink(t) ==
    /\ callPc[t] = "unlink"
    /\ rootFiles' = Unlink(rootFiles, TempReqs)
    /\ InstallReturns(t, callFrame[t],
                      IF callFrame[t].world.installer = "oserror"
                      THEN "OSError" ELSE "none")
    /\ UNCHANGED <<cache, nCalls, foreign, codecVars, nvVars, loadVars, pkVars>>

\* lines 197-204 of load_tool: the package is loaded; the body ends there, so
\* a call that does not raise returns None
LoadPackage(t) ==
    /\ callPc[t] = "load"
    /\ LET f == [callFrame[t] EXCEPT !.trace = Append(@, "load")]
           err == ToolPackage_load(cache, f.tool_path)
       IN Returns(t, f, IF err /= "none" THEN RetRaise(err) ELSE RetNone)
    /\ UNCHANGED <<cache, rootFiles, downloads, orphaned, nCalls, foreign,
                   codecVars, nvVars, loadVars, pkVars>>

\* _get_cached_versions(author, name) on the cache as it stands
ListCached(t, author, name) ==
    /\ callPc[t] = "idle"
    /\ nCalls < CallBudget
    /\ nCalls' = nCalls + 1
    /\ \E listing \in DirListings(cache, foreign, author, name) :
          lastCall' = [Call("_get_cached_versions", author, name, None, NoWorld,
                              RetNone, <<>>, nCalls + 1)
                         EXCEPT !.listed = _get_cached_versions(listing)]
    /\ UNCHANGED <<cache, foreign, rootFiles, downloads, orphaned, callPc, callFrame,
                   codecVars, nvVars, loadVars, pkVars>>

\* a cache that two downloads have filled: calc 1.9 and calc 1.10
SeedResponse(author, name, version) ==
    Response("payload", author, name, version, NoFile)
Seeded ==
    LET r1 == _save_tool_to_cache(EmptyCache, SeedResponse("alice", "calc", V1_9),
                                  _get_cache_path("alice", "calc", V1_9), "ok")
    IN _save_tool_to_cache(r1.cache, SeedResponse("alice", "calc", V1_10),
                           _get_cache_path("alice", "calc", V1_10), "ok")

InitCache ==
    /\ serialized \in BOOLEAN
    /\ \/ cache = EmptyCache /\ downloads = {}
       \/ /\ cache = Seeded.cache
          /\ downloads = {<<"alice", "calc", V1_9>>, <<"alice", "calc", V1_10>>}
    /\ foreign = ForeignEntries
    /\ rootFiles = {}
    /\ lastCall = NoCall
    /\ orphaned = FALSE
    /\ nCalls = 0
    /\ callPc = [t \in Callers |-> "idle"]
    /\ callFrame = [t \in Callers |-> NoCallFrame]
    /\ codecIdle /\ nvIdle /\ loadOff /\ pkOff

\* What the callers do, not the code: with serialized a caller steps only
\* while no other call is under way; without it the steps of two calls
\* interleave in any order.
OneAtATime(t) == serialized => \A u \in Callers \ {t} : callPc[u] = "idle"

\* the callers that start calls: callers that take turns are alike, so one of
\* them stands for all
Calling == IF serialized THEN {CHOOSE t \in Callers : \A u \in Callers : t <= u}
           ELSE Callers

\* the steps every download_tool call goes through after its cache lookup
DownloadSteps ==
    \/ \E t \in Callers : OneAtATime(t) /\ CacheCheck(t)
    \/ \E t \in Callers : OneAtATime(t) /\ Request(t)
    \/ \E t \in Callers : OneAtATime(t) /\ Save(t)
    \/ \E t \in Callers : OneAtATime(t) /\ CheckReqs(t)
    \/ \E t \in Callers : OneAtATime(t) /\ PipList(t)
    \/ \E t \in Callers : OneAtATime(t) /\ InstallLoad(t)
    \/ \E t \in Callers : OneAtATime(t) /\ InstallWrite(t)
    \/ \E t \in Callers : OneAtATime(t) /\ InstallStart(t)
    \/ \E t \in Callers : OneAtATime(t) /\ InstallRun(t)
    \/ \E t \in Callers : OneAtATime(t) /\ InstallUnlink(t)

\* the steps of load_tool(local=False) after its first
RemoteLoadSteps ==
    \/ \E t \in Callers : OneAtATime(t) /\ RemoteExists(t)
    \/ \E t \in Callers : OneAtATime(t) /\ DownloadEnter(t)
    \/ \E t \in Callers : OneAtATime(t) /\ LoadPackage(t)

NextCache ==
    \/ \E t \in Calling, author \in Authors, name \in CallNames,
          version \in CallVersions :
          OneAtATime(t) /\ DownloadTool(t, author, name, version)
    \/ \E t \in Calling, author \in Authors, name \in CallNames,
          version \in CallVersions :
          OneAtATime(t) /\ LoadToolRemote(t, author, name, version)
    \/ \E t \in Calling, author \in Authors \cup {"bob"}, name \in CallNames :
          OneAtATime(t) /\ ListCached(t, author, name)
    \/ \E t \in Calling, author \in Authors, name \in CallNames,
          version \in {V1_9, V1_10} :
          OneAtATime(t) /\ InstallToolReqs(t, author, name, version)
    \/ DownloadSteps
    \/ RemoteLoadSteps

SpecCache == InitCache /\ [][NextCache]_vars

----------------------------------------------------------------------------
(* Properties of the cache operations *)

\* the cache files of (author, name) and the versions their names decode to
PresentPaths(author, name) ==
    {q \in CachePaths : q[1] = author /\ q[2] = name /\ cache[q].present}
CachedSet(author, name) ==
    {Replace(q[3], "-", ".") : q \in PresentPaths(author, name)}

Elements(list) == {list[i] : i \in 1..Len(list)}

\* i < j for the first places of two steps in a trace
Before(trace, a, b) ==
    \E i, j \in 1..Len(trace) : i < j /\ trace[i] = a /\ trace[j] = b

\* the call that the step starts: its operation and arguments, read from the
\* record of the finished call when it ended within the step and from the
\* caller's frame when it goes on
EndsAtOnce == lastCall'.seq = nCalls'
Begun ==
    IF EndsAtOnce
    THEN [op |-> lastCall'.op, author |-> lastCall'.author, name |-> lastCall'.name,
          version |-> lastCall'.version]
    ELSE LET t == CHOOSE u \in Callers : callFrame'[u].seq = nCalls'
         IN [op |-> callFrame'[t].op, author |-> callFrame'[t].author,
             name |-> callFrame'[t].name, version |-> callFrame'[t].version]

\* the step starts a call of op
Starts(op) == nCalls' = nCalls + 1 /\ Begun.op = op

\* the step is the one in which a call of op returns or raises
Ends(op) == lastCall'.seq /= lastCall.seq /\ lastCall'.op = op

\* the call that ended last went to the registry / touched nothing but the cache lookup
NoRegistryNoInstall(call) ==
    \A i \in 1..Len(call.trace) :
        call.trace[i] \notin {"http_get", "save", "check_reqs", "install"}

\* C3: a load from a cached package that does not raise returns a pair
\* (implementation reference, configuration).
C3_RemoteLoadReturnsPair ==
    (lastCall.op = "load_tool" /\ lastCall.out.kind /= "raise") =>
        lastCall.out.kind = "pair"

\* the stem under which a version is filed
StemOf(v) == IF v = None THEN latest ELSE Replace(v, ".", "-")

\* C4: a download_tool call that finds a cache file for the resolved key (the
\* given version, or the newest cached version when none is given and the
\* cached versions are integer-dotted) returns (author, name, resolved
\* version), and it neither calls the registry, nor writes the cache, nor
\* checks or installs dependencies: the cache is unchanged.  A call without a
\* version resolves in one step and looks the resolved version up in the next.
C4_CacheHitFrame ==
    [][/\ Starts("download_tool") =>
            LET a == Begun.author
                n == Begun.name
                v == Begun.version
                cached == CachedSet(a, n)
            IN /\ (v /= None /\ cache[<<a, n, StemOf(v)>>].present) =>
                    /\ EndsAtOnce
                    /\ lastCall'.out = RetTriple(a, n, v)
                    /\ NoRegistryNoInstall(lastCall')
                    /\ cache' = cache /\ rootFiles' = rootFiles
               /\ (v = None /\ cached /= {} /\ \A w \in cached : IsIntDotted(w)) =>
                    \E t \in Callers :
                        /\ callFrame'[t].seq = nCalls' /\ callPc'[t] = "lookup"
                        /\ callFrame'[t].dlVersion \in cached
                        /\ \A w \in cached :
                              ~NumericallyLess(callFrame'[t].dlVersion, w)
                        /\ cache' = cache /\ rootFiles' = rootFiles
       /\ \A t \in Callers :
            LET f == callFrame[t]
            IN (/\ callPc[t] = "lookup" /\ callPc'[t] /= "lookup"
                /\ f.op = "download_tool"
                /\ cache[<<f.author, f.name, StemOf(f.dlVersion)>>].present) =>
                    /\ Ends("download_tool") /\ lastCall'.seq = f.seq
                    /\ lastCall'.out = RetTriple(f.author, f.name, f.dlVersion)
                    /\ NoRegistryNoInstall(lastCall')
                    /\ cache' = cache /\ rootFiles' = rootFiles
    ]_vars

C4_Witness ==
    /\ lastCall.op = "download_tool" /\ lastCall.version = None
    /\ lastCall.out = RetTriple("alice", "calc", V1_10)
    /\ lastCall.trace = <<"list_cached", "cache_hit">>
    /\ CachedSet("alice", "calc") = {V1_9, V1_10}

\* what C5 says of a download_tool call that missed the cache, got a payload
\* with version field v from the registry and returned
MissReturned(call) ==
    /\ call.op = "download_tool"
    /\ InList("http_get", call.trace)
    /\ call.out.kind = "triple"

MissPostcondition(call) ==
    LET v == call.world.response.version
        stem == IF v = None THEN latest ELSE Replace(v, ".", "-")
    IN /\ call.out = RetTriple(call.author, call.name, v)
       /\ cache'[<<call.author, call.name, stem>>].present
       /\ Before(call.trace, "http_get", "save")
       /\ Before(call.trace, "save", "check_reqs")

\* the step is download_tool(author, name, v) for the triple the last call returned
Repeats(call) ==
    /\ Starts("download_tool")
    /\ Begun.author = call.author /\ Begun.name = call.name
    /\ Begun.version = call.out.version

IsHit(call) ==
    /\ EndsAtOnce
    /\ call.out.kind = "triple"
    /\ ~InList("http_get", call.trace)
    /\ InList("cache_hit", call.trace)

\* C5 as stated: after a miss whose download succeeds with version field v, the
\* call returns (author, name, v), the cache file of (author, name, v) exists,
\* the save came after the download and before the dependency check, and
\* download_tool(author, name, v) called next is a cache hit with no registry
\* call -- for every v, null included.
C5_MissThenHit_Original ==
    [][/\ (Ends("download_tool") /\ MissReturned(lastCall')) =>
            MissPostcondition(lastCall')
       /\ (MissReturned(lastCall) /\ Repeats(lastCall)) => IsHit(lastCall')
    ]_vars

\* C5 (amended): as above, the cache hit of the call that follows being
\* claimed only when the version field v is not null.
C5_MissThenHit ==
    [][/\ (Ends("download_tool") /\ MissReturned(lastCall')) =>
            MissPostcondition(lastCall')
       /\ (MissReturned(lastCall) /\ lastCall.out.version /= None /\ Repeats(lastCall))
            => (IsHit(lastCall') /\ cache' = cache)
    ]_vars

C5_Witness ==
    /\ nCalls = 2
    /\ lastCall.op = "download_tool" /\ lastCall.version = V1_10
    /\ lastCall.name = "plot"
    /\ lastCall.trace = <<"cache_hit">>
    /\ cache[<<"alice", "plot", <<"1", "-", "1", "0">> >>].writes = 1
    /\ cache[<<"alice", "plot", <<"1", "-", "1", "0">> >>].metadata.version = V1_10

\* C6: a cache file, once written, is neither removed nor rewritten by any
\* later download_tool or load_tool call.
C6_PersistedImmutable ==
    [][serialized => \A q \in CachePaths : cache[q].present => cache'[q] = cache[q]]_vars

\* C9: _get_cached_versions(author, name) returns the decoded stems of the
\* *.tool files of cache_dir/author/name, one per file and nothing else (the
\* empty list when there is none); and when every download for (author, name)
\* handed back an integer-dotted version, none having failed after its write,
\* the versions returned are exactly the versions downloaded (no download
\* being under way while the directory is listed).
C9_ListedAreCached ==
    [][Ends("_get_cached_versions") =>
        LET a == lastCall'.author
            n == lastCall'.name
            listed == lastCall'.listed
            got == {d \in downloads : d[1] = a /\ d[2] = n}
        IN /\ Elements(listed) = CachedSet(a, n)
           /\ Len(listed) = Cardinality(PresentPaths(a, n))
           /\ PresentPaths(a, n) = {} => listed = <<>>
           /\ (serialized /\ ~orphaned /\ \A d \in got : IsIntDotted(d[3])) =>
                Elements(listed) = {d[3] : d \in got}
    ]_vars

C9_Witness ==
    /\ lastCall.op = "_get_cached_versions"
    /\ lastCall.author = "alice" /\ lastCall.name = "calc"
    /\ Len(lastCall.listed) = 2
    /\ Elements(lastCall.listed) = {V1_9, V1_10}
    /\ ~orphaned
    /\ {d \in downloads : d[2] = "calc"} =
          {<<"alice", "calc", V1_9>>, <<"alice", "calc", V1_10>>}

\* C10: install_tool_reqs returns normally when the installer exits non-zero,
\* and whenever it created the scratch file (installer succeeding, exiting
\* non-zero or failing to start) the file is gone when it returns or raises.
C10_InstallScratchRemoved ==
    [][/\ (Ends("install_tool_reqs") /\ InList("install", lastCall'.trace)) =>
          /\ TempReqs \notin rootFiles'
          /\ lastCall'.world.installer \in {"ok", "nonzero"} => lastCall'.out = RetNone
          /\ lastCall'.world.installer = "oserror" => lastCall'.out = RetRaise("OSError")
       /\ (Ends("download_tool") /\ InList("install", lastCall'.trace)) =>
          TempReqs \notin rootFiles'
    ]_vars

C10_Witness ==
    /\ lastCall.op = "install_tool_reqs" /\ lastCall.trace = <<"install">>
    /\ lastCall.world.installer = "nonzero" /\ lastCall.out = RetNone
    /\ TempReqs \notin rootFiles

----------------------------------------------------------------------------
(* check_reqs_installed on packages with various manifests *)

\* lines of a requirements.txt: requirements with and without a version, in
\* either case, blank lines, comment lines, padded lines and a line with a
\* blank before the "=="
ManifestLines ==
    { <<"n", "p">>, <<"n", "p", "=", "=", "1">>, <<"N", "p", "=", "=", "2">>,
      <<"p", "d">>, <<"P", "D", "=", "=", "1">>, <<>>, <<" ">>,
      <<"#", "n", "p">>, <<" ", "#", "n", "p">>, <<" ", "n", "p", " ">>,
      <<"n", "p", " ", "=", "=", "1">> }

MaxManifest == 2    \* longest requirements.txt, in lines
Manifests == SeqsUpTo(ManifestLines, MaxManifest) \cup {NoFile}

ReqsPath == _get_cache_path("alice", "calc", V1_9)

\* lines 265-272: check_reqs_installed(tool_path) is called for the cache
\* file of (author, name, version); the package is loaded and its
\* requirements.txt read, and without one the answer is True
CheckReqsInstalled(t, author, name, version) ==
    /\ callPc[t] = "idle"
    /\ nCalls < MaxCalls
    /\ nCalls' = nCalls + 1
    /\ LET path == _get_cache_path(author, name, version)
           f == [CallFrame("check_reqs_installed", author, name, version, nCalls + 1)
                    EXCEPT !.cache_path = path, !.trace = <<"check_reqs">>]
           err == ToolPackage_load(cache, path)
           reqs == cache[path].files
       IN IF err /= "none" THEN Returns(t, f, RetRaise(err))
          ELSE IF NoReqs(reqs) THEN Returns(t, f, RetBool(TRUE))
          ELSE Goto(t, [f EXCEPT !.reqs_content = reqs], "pip")
    /\ UNCHANGED <<cache, foreign, rootFiles, downloads, orphaned,
                   codecVars, nvVars, loadVars, pkVars>>

\* one package in the cache, saved with the manifest under test
InitReqs ==
    /\ \E m \in Manifests :
          cache = ToolPackage_save(EmptyCache, ReqsPath,
                      [author |-> "alice", name |-> "calc", version |-> V1_9], m, "ok")
    /\ downloads = {} /\ foreign = {} /\ rootFiles = {}
    /\ lastCall = NoCall /\ orphaned = FALSE /\ nCalls = 0
    /\ callPc = [t \in Callers |-> "idle"]
    /\ callFrame = [t \in Callers |-> NoCallFrame]
    /\ codecIdle /\ nvIdle /\ loadOff /\ pkOff
    /\ serialized = TRUE

NextReqs ==
    \/ \E t \in Calling : OneAtATime(t) /\ CheckReqsInstalled(t, "alice", "calc", V1_9)
    \/ \E t \in Callers : OneAtATime(t) /\ PipList(t)

SpecReqs == InitReqs /\ [][NextReqs]_vars

\* a line with nothing but blanks on it
IsBlank(line) == \A i \in 1..Len(line) : line[i] = " "
\* a line that starts with the comment sign
IsComment(line) == Len(line) > 0 /\ line[1] = "#"

\* the name on a line "name" or "name==version": what stands before the
\* first "=", blanks around it dropped
RECURSIVE UpToEq(_)
UpToEq(s) == IF Len(s) = 0 \/ s[1] = "=" THEN <<>> ELSE <<s[1]>> \o UpToEq(Tail(s))
NameOn(line) == SelectSeq(UpToEq(line), LAMBDA ch : ch /= " ")

\* two names are the same up to the case of their letters
RECURSIVE SameName(_, _)
SameName(a, b) ==
    IF Len(a) = 0 \/ Len(b) = 0 THEN Len(a) = Len(b)
    ELSE /\ \/ a[1] = b[1]
            \/ \E k \in 1..Len(UpperLetters) :
                  {a[1], b[1]} = {UpperLetters[k], LowerLetters[k]}
         /\ SameName(Tail(a), Tail(b))

DeclaredNames(manifest) ==
    {NameOn(manifest[i]) :
        i \in {k \in 1..Len(manifest) : ~IsBlank(manifest[k]) /\ ~IsComment(manifest[k])}}
InstalledNames(pip) == {NameOn(pip.lines[i]) : i \in 1..Len(pip.lines)}

\* C11 as stated: check_reqs_installed returns True for a package without
\* requirements.txt, whatever is installed; for a package with one it returns
\* True exactly when every name declared on a line that is neither blank nor
\* a comment is the name of an installed package, versions ignored and letter
\* case ignored (no package being known as installed when pip list fails).
C11_SatisfiedIffDeclaredInstalled_Original ==
    lastCall.op = "check_reqs_installed" =>
        LET manifest == cache[ReqsPath].files
            pip == lastCall.world.pip
        IN /\ manifest = NoFile => lastCall.out = RetBool(TRUE)
           /\ manifest /= NoFile =>
                lastCall.out =
                    RetBool(\A d \in DeclaredNames(manifest) :
                               \E p \in InstalledNames(pip) : SameName(d, p))

\* what stands before the "==" of a line once the blanks at its two ends are
\* dropped: a blank between the name and the "==" stays
WrittenName(line) == UpToEq(Strip(line))
WrittenNames(manifest) ==
    {WrittenName(manifest[i]) :
        i \in {k \in 1..Len(manifest) : ~IsBlank(manifest[k]) /\ ~IsComment(manifest[k])}}
PrintedNames(pip) == {UpToEq(pip.lines[i]) : i \in 1..Len(pip.lines)}

\* C11 (amended): check_reqs_installed returns True for a package without
\* requirements.txt or with an empty one, whatever is installed.  For any
\* other package, where pip list ran, it returns True exactly when every name
\* declared on a line that is neither blank nor a comment is the name of an
\* installed package, versions ignored and letter case ignored, the declared
\* name being what is written before the "==", a blank before the "=="
\* included; where pip list failed to run it returns False.
C11_SatisfiedIffDeclaredInstalled ==
    lastCall.op = "check_reqs_installed" =>
        LET manifest == cache[ReqsPath].files
            pip == lastCall.world.pip
        IN /\ manifest \in {NoFile, <<>>} => lastCall.out = RetBool(TRUE)
           /\ (manifest \notin {NoFile, <<>>} /\ ~pip.fails) =>
                lastCall.out =
                    RetBool(\A d \in WrittenNames(manifest) :
                               \E p \in PrintedNames(pip) : SameName(d, p))
           /\ (manifest \notin {NoFile, <<>>} /\ pip.fails) =>
                lastCall.out = RetBool(FALSE)

C11_Witness ==
    /\ lastCall.op = "check_reqs_installed"
    /\ cache[ReqsPath].files = << <<"#", "n", "p">>, <<"N", "p", "=", "=", "2">> >>
    /\ lastCall.world.pip = PipPrints(<< <<"n", "p", "=", "=", "1">>,
                                         <<"p", "d", "=", "=", "3">> >>)
    /\ lastCall.out = RetBool(TRUE)

----------------------------------------------------------------------------
(* load_tool, either branch: behaviours of local loads and behaviours of     *)
(* remote loads                                                              *)

InitLoadTool == InitLoad \/ InitCache

NextLoadTool ==
    \/ loadPc /= <<>> /\ NextLoad
    \/ /\ loadPc = <<>>
       /\ \E t \in Calling, author \in Authors, name \in CallNames,
             version \in CallVersions :
             OneAtATime(t) /\ LoadToolRemote(t, author, name, version)
    \/ loadPc = <<>> /\ DownloadSteps
    \/ loadPc = <<>> /\ RemoteLoadSteps

SpecLoadTool == InitLoadTool /\ [][NextLoadTool]_vars

\* the error each faulty local tool makes load_tool fail with
LocalFailure(name) ==
    CASE name \in {"ghost", "noconf"} -> "FileNotFoundError"
      [] name \in {"nobuild", "nomodule"} -> "KeyError"
      [] name = "broken" -> "EntryError"
      [] name \in {"nosym", "badext"} -> "AttributeError"

\* the local failures met before the search scope is touched (lines 140-151)
\* and those met inside the try block (lines 162-172)
EarlyFailures == {"ghost", "noconf", "nobuild", "nomodule"}
ScopedFailures == {"broken", "nosym", "badext"}

\* the remote branch: a failed download, and a missing or corrupt cache file
\* at the tool_path of line 191, reach the caller as they were raised, and a
\* call returns only after it loaded a cache file that is there and sound
RemoteFailuresSurface ==
    (loadPc = <<>> /\ Ends("load_tool")) =>
        LET call == lastCall'
            entry == cache'[call.tool_path]
            loaded == InList("load", call.trace)
            fetched == InList("http_get", call.trace)
        IN /\ (fetched /\ call.world.response.kind = "error") =>
                 call.out = RetRaise("HTTPError")
           /\ (fetched /\ call.world.io = "partial"
                  /\ call.world.response.kind = "payload") =>
                 call.out = RetRaise("OSError")
           /\ (loaded /\ ~entry.present) => call.out = RetRaise("NotFoundError")
           /\ (loaded /\ entry.present /\ entry.corrupt) =>
                 call.out = RetRaise("CorruptPackageError")
           /\ call.out.kind /= "raise" =>
                 (loaded /\ entry.present /\ ~entry.corrupt)

\* C13 as stated: load_tool raises, and raises the original error, when the
\* tool directory or its config is missing, the config is incomplete, the
\* entry file raises or lacks the entry symbol (local), when the download it
\* triggers fails, and when the cache entry it loads is missing or corrupt
\* (remote) -- whatever else the callers are doing.
C13_FailuresSurface_Original ==
    /\ []((loadPc /= <<>> /\ lastLoad.name \in EarlyFailures \cup ScopedFailures) =>
            lastLoad.outcome = PendingRaise(LocalFailure(lastLoad.name)))
    /\ [][RemoteFailuresSurface]_vars

\* C13 (amended): load_tool never returns normally after one of these
\* failures.  The failures met before the search scope is touched and those
\* of the remote branch reach the caller as they were raised; so do an entry
\* file that raises and a missing entry symbol when loads run one at a time.
\* When two loads overlap, the error of the cleanup itself may reach the
\* caller in place of the original one.
C13_FailuresSurface ==
    /\ []((loadPc /= <<>> /\ lastLoad.name \in EarlyFailures \cup ScopedFailures) =>
            lastLoad.outcome.kind = "raise")
    /\ []((loadPc /= <<>> /\ lastLoad.name \in EarlyFailures) =>
            lastLoad.outcome = PendingRaise(LocalFailure(lastLoad.name)))
    /\ []((loadPc /= <<>> /\ serialized /\ lastLoad.name \in ScopedFailures) =>
            lastLoad.outcome = PendingRaise(LocalFailure(lastLoad.name)))
    /\ []((loadPc /= <<>> /\ ~serialized /\ lastLoad.name \in ScopedFailures) =>
            lastLoad.outcome.err \in
                {LocalFailure(lastLoad.name), "IndexError", "KeyError"})
    /\ []((loadPc /= <<>> /\ serialized /\ lastLoad.name = "calc") =>
            lastLoad.outcome.kind /= "raise")
    /\ [][RemoteFailuresSurface]_vars

\* a load of its own whose entry file lacks the entry symbol: the cleanup has
\* run and the AttributeError of line 172 has reached the caller
C13_Witness ==
    /\ loadPc /= <<>> /\ serialized /\ AllIdle
    /\ lastLoad.name = "nosym" /\ lastLoad.registered
    /\ lastLoad.outcome = PendingRaise("AttributeError")

----------------------------------------------------------------------------
(* _get_newest_version on its own and inside the unpinned cache operations *)

InitNewestCache == InitNewest \/ InitCache

NextNewestCache ==
    \/ nvPc /= "off" /\ NextNewest
    \/ /\ nvPc = "off"
       /\ \E t \in Calling, author \in Authors, name \in CallNames,
             version \in CallVersions :
             OneAtATime(t) /\ DownloadTool(t, author, name, version)
    \/ /\ nvPc = "off"
       /\ \E t \in Calling, author \in Authors, name \in CallNames,
             version \in CallVersions :
             OneAtATime(t) /\ LoadToolRemote(t, author, name, version)
    \/ nvPc = "off" /\ DownloadSteps
    \/ nvPc = "off" /\ RemoteLoadSteps

SpecNewestCache == InitNewestCache /\ [][NextNewestCache]_vars

\* a dot-separated component that is no number: empty, or with a character
\* that is neither a digit nor a sign
NonNumeric(x) == x = <<>> \/ \E i \in 1..Len(x) : x[i] \notin DigitSet \cup {"-"}
HasNonNumeric(v) == LET parts == Split(v) IN \E i \in 1..Len(parts) : NonNumeric(parts[i])

\* C14: _get_newest_version raises ValueError on every non-empty list that
\* holds a version with a non-numeric component, a list of one version
\* included; and download_tool or load_tool called without a version, for an
\* (author, name) with such a version in the cache, raises that ValueError
\* and leaves the cache as it was.
C14_NonNumericRaises ==
    /\ [](( nvPc = "done" /\ \E i \in 1..Len(nvIn) : HasNonNumeric(nvIn[i]))
              => nvOut = Raise("ValueError"))
    /\ [][(nvPc = "off" /\ (Starts("download_tool") \/ Starts("load_tool"))
             /\ Begun.version = None
             /\ \E w \in CachedSet(Begun.author, Begun.name) : HasNonNumeric(w))
            => (EndsAtOnce /\ lastCall'.out = RetRaise("ValueError")
                /\ cache' = cache)]_vars

C14_Witness ==
    /\ nvPc = "off" /\ lastCall.op = "load_tool" /\ lastCall.version = None
    /\ CachedSet("alice", lastCall.name) = {V1_b}
    /\ lastCall.out = RetRaise("ValueError")

----------------------------------------------------------------------------
(* package_tool: _get_tool_files and _get_tool_metadata *)

\* JSON values: null, a string, an object (a function from its keys)
JNull == [t |-> "null"]
JStr(x) == [t |-> "str", v |-> x]
JObj(f) == [t |-> "obj", v |-> f]
EmptyObj == JObj(<<>>)

\* mutant: a missing key reads as None whatever default was given
MutGet(d, k, default) == IF k \in DOMAIN d.v THEN d.v[k] ELSE JNull

\* dict.get(k, default)
Get(d, k, default) == IF k \in DOMAIN d.v THEN d.v[k] ELSE default

\* the folder handed to package_tool and the files it may hold, by the path
\* components below the folder
FolderPath == <<"home", "mytool">>
ConfigFile == [path |-> <<"config.json">>, content |-> "cfg"]
CandidateFiles ==
    { ConfigFile,
      [path |-> <<"main.py">>, content |-> "c1"],
      [path |-> <<"requirements.txt">>, content |-> "c2"],
      [path |-> <<"sub", "main.py">>, content |-> "c3"],
      [path |-> <<"sub", "deep", "x.py">>, content |-> "c1"] }

MaxFiles == 4    \* most files in the folder

\* what config.json may hold: text that is no JSON, or an object
FullConfig ==
    JObj([name |-> JStr("calc"), license |-> JStr("MIT"),
          meta |-> JObj([author |-> JStr("alice"), version |-> JStr("1.0.0")]),
          build |-> JObj([entry |-> JStr("main.py"), module |-> JStr("Tool")])])
Configs ==
    { FullConfig, EmptyObj,
      JObj([name |-> JStr("calc")]),
      JObj([meta |-> JObj([author |-> JStr("alice")])]),
      JObj([build |-> JObj([module |-> JStr("Calc")]), license |-> JStr("MIT")]),
      JObj([meta |-> EmptyObj, build |-> EmptyObj]),
      JObj([meta |-> JNull]) }
NotJson == [t |-> "invalid"]

\* os.path.join(root, filename) and os.path.relpath(file_path, folder_path)
JoinPath(root, filename) == Append(root, filename)
RelPath(file_path, folder_path) ==
    SubSeq(file_path, Len(folder_path) + 1, Len(file_path))

IsPrefix(a, b) == Len(a) <= Len(b) /\ SubSeq(b, 1, Len(a)) = a

\* a sequence without the repetitions of its elements
RECURSIVE Dedup(_)
Dedup(q) ==
    IF Len(q) = 0 THEN <<>>
    ELSE LET front == Dedup(SubSeq(q, 1, Len(q) - 1))
         IN IF InList(q[Len(q)], front) THEN front ELSE Append(front, q[Len(q)])

\* mutant: the walk stops at the top directory
MutWalkDirs(scan, dir) == <<>>

\* the subdirectories os.walk finds in dir, scan being the order in which the
\* file system yields the files
WalkDirs(scan, dir) ==
    LET below == SelectSeq(scan, LAMBDA f : IsPrefix(dir, f.path)
                                             /\ Len(f.path) > Len(dir) + 1)
    IN Dedup([i \in 1..Len(below) |-> SubSeq(below[i].path, 1, Len(dir) + 1)])

\* lines 248-254: os.walk top-down from dir, one record per file name
RECURSIVE WalkFiles(_, _)
WalkFiles(scan, dir) ==
    LET root == FolderPath \o dir
        here == SelectSeq(scan, LAMBDA f : IsPrefix(dir, f.path)
                                            /\ Len(f.path) = Len(dir) + 1)
        records == [i \in 1..Len(here) |->
                      LET file_path == JoinPath(root, here[i].path[Len(dir) + 1])
                      IN [path |-> RelPath(file_path, FolderPath),
                          content |-> <<"b64", here[i].content>>]]
        dirs == WalkDirs(scan, dir)
        RECURSIVE Below(_)
        Below(k) == IF k > Len(dirs) THEN <<>>
                    ELSE WalkFiles(scan, dirs[k]) \o Below(k + 1)
    IN records \o Below(1)

\* lines 245-255
_get_tool_files(scan) == WalkFiles(scan, <<>>)

\* lines 257-263: [err, metadata]
_get_tool_metadata(folder, config) ==
    IF ConfigFile \notin folder THEN [err |-> "none", metadata |-> EmptyObj]
    ELSE IF config = NotJson THEN [err |-> "JSONDecodeError", metadata |-> EmptyObj]
    ELSE [err |-> "none", metadata |-> config]

NoPayload ==
    [err |-> "unset", author |-> JNull, name |-> JNull, version |-> JNull,
     license |-> JNull, files |-> <<>>, entry |-> JNull, module |-> JNull]

\* lines 38-58: the payload, or the error that leaves package_tool
package_tool(folder, config, scan) ==
    LET tool_files == _get_tool_files(scan)
        md == _get_tool_metadata(folder, config)
        metadata == md.metadata
        meta == Get(metadata, "meta", EmptyObj)
        build == Get(metadata, "build", EmptyObj)
    IN IF md.err /= "none" THEN [NoPayload EXCEPT !.err = md.err]
       ELSE IF meta.t /= "obj" \/ build.t /= "obj"
            THEN [NoPayload EXCEPT !.err = "AttributeError"]
       ELSE [err |-> "none",
             author |-> Get(meta, "author", JNull),
             name |-> Get(metadata, "name", JNull),
             version |-> Get(meta, "version", JNull),
             license |-> Get(metadata, "license", JStr("Unknown")),
             files |-> tool_files,
             entry |-> Get(build, "entry", JStr("tool.py")),
             module |-> Get(build, "module", JStr("Tool"))]

InitPackage ==
    /\ pkFolder \in {F \in SUBSET CandidateFiles : Cardinality(F) <= MaxFiles}
    /\ pkConfig \in (IF ConfigFile \in pkFolder THEN Configs \cup {NotJson}
                      ELSE {EmptyObj})
    /\ pkOut = NoPayload /\ pkPc = "in"
    /\ codecIdle /\ nvIdle /\ loadOff /\ cacheOff
    /\ serialized = TRUE

\* package_tool(folder_path), the file system yielding the files in some order
PackageTool ==
    /\ pkPc = "in"
    /\ \E scan \in Orderings(pkFolder) :
          pkOut' = package_tool(pkFolder, pkConfig, scan)
    /\ pkPc' = "done"
    /\ UNCHANGED <<pkFolder, pkConfig, codecVars, nvVars, loadVars, cacheVars>>

NextPackage == PackageTool
SpecPackage == InitPackage /\ [][NextPackage]_vars

\* the config has the key, or the key inside the object under outer
HasKey(cfg, k) == cfg.t = "obj" /\ k \in DOMAIN cfg.v
HasNested(cfg, outer, k) == HasKey(cfg, outer) /\ HasKey(cfg.v[outer], k)

\* C15: the files list of the payload has one record for each file of the
\* folder tree, config.json and files of subdirectories included, carrying
\* the file's path relative to the folder, and no other record; author and
\* version are config.meta.author and config.meta.version, entry and module
\* are config.build.entry and config.build.module, where the config has them.
C15_PackageListsTree ==
    (pkPc = "done" /\ pkOut.err = "none") =>
        /\ \A f \in pkFolder :
              Cardinality({i \in 1..Len(pkOut.files) : pkOut.files[i].path = f.path}) = 1
        /\ \A i \in 1..Len(pkOut.files) : \E f \in pkFolder : f.path = pkOut.files[i].path
        /\ Len(pkOut.files) = Cardinality(pkFolder)
        /\ HasNested(pkConfig, "meta", "author") => pkOut.author = pkConfig.v.meta.v.author
        /\ HasNested(pkConfig, "meta", "version") => pkOut.version = pkConfig.v.meta.v.version
        /\ HasNested(pkConfig, "build", "entry") => pkOut.entry = pkConfig.v.build.v.entry
        /\ HasNested(pkConfig, "build", "module") => pkOut.module = pkConfig.v.build.v.module

C15_Witness ==
    /\ pkPc = "done" /\ pkOut.err = "none" /\ pkConfig = FullConfig
    /\ Len(pkOut.files) = 4
    /\ \E i \in 1..4 : pkOut.files[i].path = <<"sub", "deep", "x.py">>
    /\ \E i \in 1..4 : pkOut.files[i].path = <<"sub", "main.py">>
    /\ pkOut.author = JStr("alice") /\ pkOut.version = JStr("1.0.0")
    /\ pkOut.entry = JStr("main.py") /\ pkOut.module = JStr("Tool")

\* the key is absent from the config, or the object it would be in is absent
Unsupplied(cfg, outer, k) == ~HasKey(cfg, outer) \/ ~HasKey(cfg.v[outer], k)
\* the object under the key is absent or is an object
AbsentOrObj(cfg, k) == ~HasKey(cfg, k) \/ cfg.v[k].t = "obj"

\* C16: with config.json absent, or present as an object in which meta, build
\* and license are absent or lack fields, package_tool returns a payload:
\* author, name and version are None where not supplied, and entry, module and
\* license are "tool.py", "Tool" and "Unknown" where not supplied.
C16_DraftsBuildable ==
    LET cfg == IF ConfigFile \in pkFolder THEN pkConfig ELSE EmptyObj IN
    (pkPc = "done" /\ cfg.t = "obj" /\ AbsentOrObj(cfg, "meta") /\ AbsentOrObj(cfg, "build")) =>
        /\ pkOut.err = "none"
        /\ Unsupplied(cfg, "meta", "author") => pkOut.author = JNull
        /\ Unsupplied(cfg, "meta", "version") => pkOut.version = JNull
        /\ ~HasKey(cfg, "name") => pkOut.name = JNull
        /\ ~HasKey(cfg, "license") => pkOut.license = JStr("Unknown")
        /\ Unsupplied(cfg, "build", "entry") => pkOut.entry = JStr("tool.py")
        /\ Unsupplied(cfg, "build", "module") => pkOut.module = JStr("Tool")

C16_Witness ==
    /\ pkPc = "done" /\ ConfigFile \notin pkFolder /\ Cardinality(pkFolder) = 2
    /\ pkOut.err = "none" /\ Len(pkOut.files) = 2
    /\ pkOut.author = JNull /\ pkOut.name = JNull /\ pkOut.version = JNull
    /\ pkOut.entry = JStr("tool.py") /\ pkOut.module = JStr("Tool")
    /\ pkOut.license = JStr("Unknown")

----------------------------------------------------------------------------
(* load_tool(local=False) after the download it triggers *)

\* C17: when a remote load_tool call finds no cache file for the version it
\* resolved, and the download_tool call it makes returns, the cache file that
\* load_tool then opens -- the one of the version resolved at the start,
\* "latest" when no version was given and none was cached -- exists.
C17_LoadsWhatDownloadWrote ==
    (serialized /\ lastCall.op = "load_tool" /\ InList("download_tool", lastCall.trace)
        /\ InList("load", lastCall.trace)) =>
        cache[<<lastCall.author, lastCall.name,
                IF lastCall.version = None THEN latest
                ELSE Replace(lastCall.version, ".", "-")>>].present

----------------------------------------------------------------------------
(* Two local loads in one process *)

\* the caller has pushed its tool directory and not yet run its finally block
InScope(u) == loadPc[u] \in {"pushed", "executing", "finally"}

\* a load is executing its entry file while the tool directory that another
\* load pushed is in sys.path
ForeignScopeWhileExecuting ==
    \E t \in Callers, u \in Callers :
        /\ t /= u
        /\ loadPc[t] = "executing"
        /\ InScope(u)
        /\ InList(loadFrame[u].tool_path, sysPath)

\* C18, for loads that interleave: the state above is reachable (this
\* predicate is violated under SpecLoad).
C18_FreeLoadsNeverOverlap == ~serialized => ~ForeignScopeWhileExecuting

\* C18, for loads run one after the other: no load executes its entry file
\* with another load's directory in sys.path, and when both loads are over
\* sys.path is what it was before them.
C18_SerializedLoadsIsolated ==
    serialized =>
        /\ ~ForeignScopeWhileExecuting
        /\ (AllIdle /\ nLoads = 2) => sysPath = pathAtStart

\* C19: when a local load is over, every module that was in sys.modules
\* before the call is still there, the one registered under the tool's own
\* module name included.
C19_RegistryFrame ==
    (serialized /\ AllIdle /\ lastLoad.caller /= 0) =>
        \A n \in ModuleNames :
            lastLoad.modsBefore[n] /= NoModule => sysModules[n] = lastLoad.modsBefore[n]

----------------------------------------------------------------------------
(* Cache keys and the metadata stored under them *)

\* C20: every cache file is stored under the key its own metadata spells:
\* the stem is the encoding of metadata.version ("latest" for None) and the
\* two directories are metadata.author and metadata.name.
C20_KeyMatchesMetadata ==
    \A q \in CachePaths :
        (serialized /\ cache[q].present) =>
            /\ q[3] = (IF cache[q].metadata.version = None THEN latest
                       ELSE Replace(cache[q].metadata.version, ".", "-"))
            /\ q[1] = cache[q].metadata.author
            /\ q[2] = cache[q].metadata.name

====
